---- MODULE Spec2Model ----
(***************************************************************************)
(* A model of plex-poster-download: plex_connection.py (configuration,     *)
(* connection set-up and GUID extraction) and plex_poster_download.py      *)
(* (save-path deduplication and the download loop).                        *)
(*                                                                         *)
(* Python strings are modelled as sequences of one-character strings, so   *)
(* that find, split, re.sub and pathlib's stem/suffix are computed rather  *)
(* than assumed.                                                           *)
(***************************************************************************)
EXTENDS Integers, Sequences, FiniteSets, TLC

VARIABLES
    \* ---- a call of PlexConnection.get_item_guid
    title,          \* argument title
    lib_type,       \* argument lib_type
    full,           \* argument full
    guid_pc,        \* "call" before the call, "done" after it
    guid_result     \* what the call produced: a returned string or a raised exception

guidVars == <<title, lib_type, full, guid_pc, guid_result>>

VARIABLES
    \* ---- the local filesystem and the calls of plex_poster_download.py into it
    save_path,      \* the save_path argument: NoPath (None) or a directory name
    dirs,           \* the directories that exist, each a sequence of components
    files,          \* the files that exist: a function from file path to content
    calls,          \* how many calls of create_save_path / download_images were made
    last_call,      \* the last such call: its arguments, its result and the state it began in
    log             \* the downloads made so far, in order: what was saved, under which
                    \* name and path, and whether <name>.png was unused (fresh) then

fsVars == <<save_path, dirs, files, calls, last_call, log>>

VARIABLES
    \* ---- a run of the program: PlexConnection(...) and main's loop
    env,            \* os.environ after load_dotenv: a function from the set variables
    config,         \* ./config.yml: "ok", "missing" or "malformed"
    net,            \* what a connection attempt to each address ends in
    library,        \* the library config.yml names: whether the server has it, and its type
    pc,             \* where the run is
    self,           \* the fields of the PlexConnection
    tried,          \* the addresses PlexServer(...) was called with, in order
    ending,         \* how the run ended when it ended early: sys.exit or an uncaught exception
    children,       \* how many items the loop has walked
    posters_seen    \* how many of them had a poster

runVars == <<env, config, net, library, pc, self, tried, ending, children, posters_seen>>

vars == <<guidVars, fsVars, runVars>>

-----------------------------------------------------------------------------
(* Python str primitives *)

Last(s) == s[Len(s)]

\* s[i..] starts with sub (i is 1-based)
StartsAt(s, sub, i) ==
    /\ i + Len(sub) - 1 <= Len(s)
    /\ \A k \in 1..Len(sub) : s[i + k - 1] = sub[k]

\* str.find(sub): the lowest 0-based index of sub in s, -1 when absent
Find(s, sub) ==
    LET hits == {i \in 1..(Len(s) + 1) : StartsAt(s, sub, i)}
    IN  IF hits = {} THEN -1
        ELSE (CHOOSE i \in hits : \A j \in hits : i <= j) - 1

\* str.split(sep=sep): left-to-right, non-overlapping; always at least one part
RECURSIVE SplitFrom(_, _, _, _)
SplitFrom(s, sep, i, cur) ==
    IF i > Len(s) THEN <<cur>>
    ELSE IF StartsAt(s, sep, i) THEN <<cur>> \o SplitFrom(s, sep, i + Len(sep), <<>>)
    ELSE SplitFrom(s, sep, i + 1, Append(cur, s[i]))

Split(s, sep) == SplitFrom(s, sep, 1, <<>>)

IsSpace(c) == c \in {" ", "\t", "\n"}

\* str.split() with no separator: the maximal runs of non-whitespace; may be empty
RECURSIVE SplitWsFrom(_, _, _)
SplitWsFrom(s, i, cur) ==
    IF i > Len(s) THEN (IF cur = <<>> THEN <<>> ELSE <<cur>>)
    ELSE IF IsSpace(s[i])
         THEN (IF cur = <<>> THEN <<>> ELSE <<cur>>) \o SplitWsFrom(s, i + 1, <<>>)
         ELSE SplitWsFrom(s, i + 1, Append(cur, s[i]))

SplitWs(s) == SplitWsFrom(s, 1, <<>>)

-----------------------------------------------------------------------------
(* PlexConnection.get_item_guid *)

s_tmdb == <<"t", "m", "d", "b">>
s_imdb == <<"i", "m", "d", "b">>
s_tvdb == <<"t", "v", "d", "b">>
s_plex == <<"p", "l", "e", "x">>
s_plex_prefix == s_plex \o <<":", "/", "/">>
s_scheme == <<":", "/", "/">>
s_minus_one == <<"-", "1">>

lib_sources ==
    [movie |-> <<s_tmdb, s_imdb, s_plex>>,
     show  |-> <<s_tvdb, s_tmdb, s_plex>>]

Return(v) == [kind |-> "return", value |-> v]
Raise(e) == [kind |-> "raise", exc |-> e]

\* a faulty variant: an unknown kind silently gets no sources (dict.get(lib_type, []))
LookupSourcesDefault(t) ==
    IF t \in DOMAIN lib_sources THEN [ok |-> TRUE, val |-> lib_sources[t]]
    ELSE [ok |-> TRUE, val |-> <<>>]

\* lib_sources[lib_type]: the list, or KeyError
LookupSources(t) ==
    IF t \in DOMAIN lib_sources THEN [ok |-> TRUE, val |-> lib_sources[t]]
    ELSE [ok |-> FALSE, val |-> <<>>]

\* the for loop over the sources of the kind, from the k-th source on
RECURSIVE ScanSources(_, _, _, _)
ScanSources(t, sources, k, f) ==
    IF k > Len(sources) THEN Return(s_minus_one)
    ELSE LET source == sources[k] IN
         IF Find(t, source) = -1 THEN ScanSources(t, sources, k + 1, f)
         ELSE IF source = s_plex
              THEN LET words == SplitWs(Last(Split(t, s_plex_prefix))) IN
                   IF words = <<>> THEN Raise("IndexError")
                   ELSE Return(IF f THEN source \o s_scheme \o words[1] ELSE words[1])
              ELSE LET guid == Split(Last(Split(t, <<"{">> \o source \o <<"-">>)), <<"}">>)[1] IN
                   Return(IF f THEN source \o s_scheme \o guid ELSE guid)

get_item_guid(t, lt, f) ==
    LET look == LookupSources(lt) IN
    IF look.ok THEN ScanSources(t, look.val, 1, f)
    ELSE Raise("UnknownType")

-----------------------------------------------------------------------------
(* The identifier strings and kinds get_item_guid is called with *)

MaxPieces == 3

id_123 == <<"1", "2", "3">>
id_45 == <<"4", "5">>
id_tt1 == <<"t", "t", "1">>
id_9 == <<"9">>
id_movie_456 == <<"m", "o", "v", "i", "e", "/", "4", "5", "6">>

Token(source, id) == <<"{">> \o source \o <<"-">> \o id \o <<"}">>

tok_tmdb_123 == Token(s_tmdb, id_123)

Pieces ==
    { tok_tmdb_123, Token(s_tmdb, id_45), Token(s_imdb, id_tt1), Token(s_tvdb, id_9),
      s_plex_prefix \o id_movie_456, s_plex_prefix, <<" ">>, s_tmdb, s_plex,
      <<"A">> }

RECURSIVE Concats(_)
Concats(n) ==
    IF n = 0 THEN {<<>>}
    ELSE LET shorter == Concats(n - 1)
         IN  shorter \cup {s \o p : s \in shorter, p \in Pieces}

Titles == Concats(MaxPieces)

Kinds == {"movie", "show", "album", "artist"}

InitGuid ==
    /\ title \in Titles
    /\ lib_type \in Kinds
    /\ full \in BOOLEAN
    /\ guid_pc = "call"
    /\ guid_result = Return(<<>>)

GetItemGuid ==
    /\ guid_pc = "call"
    /\ guid_result' = get_item_guid(title, lib_type, full)
    /\ guid_pc' = "done"
    /\ UNCHANGED <<title, lib_type, full>>
    /\ UNCHANGED <<fsVars, runVars>>

NextGuid == GetItemGuid

-----------------------------------------------------------------------------
(* Optional values: Python's None, or a value *)

None == <<>>
Some(v) == <<v>>

\* bool(x) of an optional string: None and "" are falsy
Truthy(o) == o # None /\ o[1] # <<>>

-----------------------------------------------------------------------------
(* pathlib and os, as plex_poster_download.py uses them *)

s_png == <<".", "p", "n", "g">>
s_underscore == <<"_">>

Digits == <<"0", "1", "2", "3", "4", "5", "6", "7", "8", "9">>

\* str(n) of an int n >= 0, as an f-string formats it
RECURSIVE str(_)
str(n) == IF n < 10 THEN <<Digits[n + 1]>> ELSE str(n \div 10) \o <<Digits[(n % 10) + 1]>>

\* str.rfind(c): the highest 0-based index of the character c, -1 when absent
RFind(s, c) ==
    LET hits == {i \in 1..Len(s) : s[i] = c}
    IN  IF hits = {} THEN -1
        ELSE (CHOOSE i \in hits : \A j \in hits : j <= i) - 1

\* PurePath.suffix of a file name: from the last dot on, unless that dot leads or ends the name
suffix(name) ==
    LET i == RFind(name, ".")
    IN  IF 0 < i /\ i < Len(name) - 1 THEN SubSeq(name, i + 1, Len(name)) ELSE <<>>

\* PurePath.with_stem: the new stem followed by the old suffix
with_stem(path, stem) == [path EXCEPT !.name = stem \o suffix(path.name)]

\* Path.exists
exists(fs, path) == path \in DOMAIN fs

\* os.makedirs(p, exist_ok=True): p and every missing ancestor of it
makedirs(ds, p) == ds \cup {SubSeq(p, 1, n) : n \in 1..Len(p)}

\* urllib.request.urlretrieve(url, path): the bytes behind url are written to path,
\* replacing whatever path held
urlretrieve(fs, path, content) ==
    [p \in (DOMAIN fs) \cup {path} |-> IF p = path THEN content ELSE fs[p]]

-----------------------------------------------------------------------------
(* create_save_path and download_images *)

\* library[0], the name of the lib
LibraryName == "Movies"

save_dir_path(sp, lib) ==
    IF sp # None THEN <<sp[1], lib>> ELSE <<"cwd", "Posters", lib>>

\* the while loop: the first i, counting from i, whose suffixed name is unused
RECURSIVE FirstUnused(_, _, _, _)
FirstUnused(fs, image_path, name, i) ==
    IF exists(fs, with_stem(image_path, name \o s_underscore \o str(i)))
    THEN FirstUnused(fs, image_path, name, i + 1)
    ELSE i

\* a faulty variant: the existence check is dropped, the first name is always taken
create_save_path_nocheck(ds, fs, sp, lib, name) ==
    [dirs  |-> makedirs(ds, save_dir_path(sp, lib)),
     files |-> fs,
     path  |-> [dir |-> save_dir_path(sp, lib), name |-> name \o s_png]]

\* a faulty variant: the chosen path is also created, as an empty file
create_save_path_touch(ds, fs, sp, lib, name) ==
    LET r == create_save_path_nocheck(ds, fs, sp, lib, name)
    IN  [r EXCEPT !.files = urlretrieve(fs, r.path, <<>>)]

\* create_save_path: the directories and files after the call, and the path returned
create_save_path(ds, fs, sp, lib, name) ==
    LET image_path == [dir |-> save_dir_path(sp, lib), name |-> name \o s_png]
    IN  [dirs  |-> makedirs(ds, save_dir_path(sp, lib)),
         files |-> fs,
         path  |-> IF exists(fs, image_path)
                   THEN with_stem(image_path,
                                  name \o s_underscore \o str(FirstUnused(fs, image_path, name, 1)))
                   ELSE image_path]

\* download_images: got is what the request for thumb_url yields, the poster or,
\* when urlretrieve raises, nothing
download_images(ds, fs, sp, lib, name, got) ==
    LET r == create_save_path(ds, fs, sp, lib, name)
    IN  [dirs  |-> r.dirs,
         files |-> IF got = None THEN r.files ELSE urlretrieve(r.files, r.path, got[1]),
         path  |-> r.path,
         ok    |-> got # None]

-----------------------------------------------------------------------------
(* Calls of create_save_path and download_images on a directory that may already
   hold files *)

MaxCalls == 2

n_Foo == <<"F", "o", "o">>
n_Foo_1 == n_Foo \o <<"_", "1">>

\* the names the functions are called with
CallNames == {<<>>, n_Foo, n_Foo_1}

\* the names of the files the library directory may hold before the first call
OldNames ==
    { n_Foo \o s_png, n_Foo_1 \o s_png, n_Foo \o <<"_", "2">> \o s_png,
      s_png, <<"_", "1">>, <<"_", "1">> \o s_png }

Posters == {<<"p", "1">>, <<"p", "2">>}
OldContent == <<"o", "l", "d">>

NoCall ==
    [op |-> "none", name |-> <<>>, path |-> [dir |-> <<>>, name |-> <<>>],
     pre_dirs |-> {}, pre_files |-> <<>>]

\* the filesystem before the program runs: a prefix of the save directory's path
\* exists, and the save directory, when it exists, holds some old files
InitFsWith(OldSet) ==
    /\ save_path \in {None, Some("out")}
    /\ \E n \in 0..Len(save_dir_path(save_path, LibraryName)) :
          /\ save_path = None => n >= 1
          /\ dirs = {SubSeq(save_dir_path(save_path, LibraryName), 1, k) : k \in 1..n}
          /\ \E S \in SUBSET OldSet :
                /\ n < Len(save_dir_path(save_path, LibraryName)) => S = {}
                /\ files = [p \in {[dir |-> save_dir_path(save_path, LibraryName), name |-> x] : x \in S}
                              |-> OldContent]
    /\ calls = 0
    /\ last_call = NoCall
    /\ log = <<>>

\* the filesystem part of a state in which no call is ever made
IdleFs ==
    /\ save_path = None
    /\ dirs = {}
    /\ files = <<>>
    /\ calls = 0
    /\ last_call = NoCall
    /\ log = <<>>

CreateSavePath ==
    /\ calls < MaxCalls
    /\ \E name \in CallNames :
          LET r == create_save_path(dirs, files, save_path, LibraryName, name) IN
          /\ dirs' = r.dirs
          /\ files' = r.files
          /\ last_call' = [op |-> "create_save_path", name |-> name, path |-> r.path,
                           pre_dirs |-> dirs, pre_files |-> files]
    /\ calls' = calls + 1
    /\ UNCHANGED <<save_path, log>>
    /\ UNCHANGED <<guidVars, runVars>>

DownloadImages ==
    /\ calls < MaxCalls
    /\ \E name \in CallNames, got \in {None} \cup {Some(p) : p \in Posters} :
          LET r == download_images(dirs, files, save_path, LibraryName, name, got) IN
          /\ dirs' = r.dirs
          /\ files' = r.files
          /\ last_call' = [op |-> IF r.ok THEN "download_images" ELSE "download_failed",
                           name |-> name, path |-> r.path,
                           pre_dirs |-> dirs, pre_files |-> files]
          /\ log' = IF r.ok
                    THEN Append(log, [kind |-> "direct", title |-> name, year |-> None,
                                      name |-> name, path |-> r.path,
                                      fresh |-> ~exists(files, [r.path EXCEPT !.name = name \o s_png])])
                    ELSE log
    /\ calls' = calls + 1
    /\ UNCHANGED save_path
    /\ UNCHANGED <<guidVars, runVars>>

NextPath == CreateSavePath \/ DownloadImages

IdleGuid ==
    /\ title = <<>>
    /\ lib_type = "movie"
    /\ full = FALSE
    /\ guid_pc = "idle"
    /\ guid_result = Return(<<>>)

-----------------------------------------------------------------------------
(* PlexConnection.load_config and PlexConnection.plex_setup *)

K_TOKEN == "PLEX_TOKEN"
K_IP == "PLEX_SERVER_IP"
K_PUB == "PLEX_SERVER_PUBLIC_IP"

s_http == <<"h", "t", "t", "p", ":", "/", "/">>
s_https == <<"h", "t", "t", "p", "s", ":", "/", "/">>

\* s[:n]
Prefix(s, n) == SubSeq(s, 1, IF n < Len(s) THEN n ELSE Len(s))

Exit(msg) == [status |-> "exit", why |-> msg]
Crash(exception) == [status |-> "crash", why |-> exception]

NoSelf ==
    [using_public_ip |-> FALSE, plex_token |-> None, plex_ip |-> None,
     plex_pub_ip |-> None, plex |-> None]

\* the check of one address in the loop "for ip in [self.plex_ip, self.plex_pub_ip]"
BadAddress(ip) ==
    /\ Truthy(ip)
    /\ Prefix(ip[1], 7) # s_http
    /\ Prefix(ip[1], 8) # s_https

\* [self.plex_ip, self.plex_pub_ip]
AddressesToCheck(ip, pub) == {ip, pub}

\* load_config: how it ends, and the fields of self it has set by then.
\* e is os.environ, cfg the state of ./config.yml
load_config(e, cfg) ==
    IF K_TOKEN \notin DOMAIN e
    THEN [end |-> Exit("no PLEX_TOKEN"), self |-> NoSelf]
    ELSE IF K_IP \notin DOMAIN e /\ K_PUB \notin DOMAIN e
    THEN [end |-> Exit("no IP address"), self |-> [NoSelf EXCEPT !.plex_token = Some(e[K_TOKEN])]]
    ELSE LET upi == K_IP \notin DOMAIN e
             ip  == IF upi THEN Some(e[K_PUB]) ELSE Some(e[K_IP])
             pub == IF ~upi /\ K_PUB \in DOMAIN e THEN Some(e[K_PUB]) ELSE None
             me  == [using_public_ip |-> upi, plex_token |-> Some(e[K_TOKEN]),
                     plex_ip |-> ip, plex_pub_ip |-> pub, plex |-> None]
         IN  IF \E a \in AddressesToCheck(ip, pub) : BadAddress(a)
             THEN [end |-> Exit("invalid IP address"), self |-> me]
             ELSE IF cfg = "missing"
             THEN [end |-> Crash("FileNotFoundError"), self |-> me]
             ELSE IF cfg = "malformed"
             THEN [end |-> Crash("UnboundLocalError"), self |-> me]
             ELSE [end |-> [status |-> "ok", why |-> ""], self |-> me]

\* PlexServer(baseurl, token): what the attempt to connect to baseurl ends in
PlexServer(n, baseurl) == n[baseurl]

\* a faulty variant: the public address is never tried
plex_setup_nofallback(n, me) ==
    LET o1 == PlexServer(n, me.plex_ip[1]) IN
    IF o1 = "ok"
    THEN [end |-> [status |-> "ok", why |-> ""], tried |-> <<me.plex_ip[1]>>, plex |-> me.plex_ip]
    ELSE [end |-> Exit("unable to connect"), tried |-> <<me.plex_ip[1]>>, plex |-> None]

\* plex_setup: how it ends, the addresses it tried in order, and self.plex
plex_setup(n, me) ==
    LET o1 == PlexServer(n, me.plex_ip[1]) IN
    IF o1 = "ok"
    THEN [end |-> [status |-> "ok", why |-> ""], tried |-> <<me.plex_ip[1]>>, plex |-> me.plex_ip]
    ELSE IF o1 = "InvalidURL"
    THEN [end |-> Exit("invalid IP address"), tried |-> <<me.plex_ip[1]>>, plex |-> None]
    ELSE IF o1 = "ConnectionError"
    THEN IF Truthy(me.plex_pub_ip)
         THEN LET o2 == PlexServer(n, me.plex_pub_ip[1])
                  both == <<me.plex_ip[1], me.plex_pub_ip[1]>>
              IN  IF o2 = "ok"
                  THEN [end |-> [status |-> "ok", why |-> ""], tried |-> both,
                        plex |-> me.plex_pub_ip]
                  ELSE IF o2 \in {"InvalidURL", "ConnectionError"}
                  THEN [end |-> Exit("unable to connect"), tried |-> both, plex |-> None]
                  ELSE IF o2 = "Unauthorized"
                  THEN [end |-> Exit("invalid token"), tried |-> both, plex |-> None]
                  ELSE [end |-> Crash(o2), tried |-> both, plex |-> None]
         ELSE [end |-> Exit("unable to connect"), tried |-> <<me.plex_ip[1]>>, plex |-> None]
    ELSE IF o1 = "Unauthorized"
    THEN [end |-> Exit("invalid token"), tried |-> <<me.plex_ip[1]>>, plex |-> None]
    ELSE [end |-> Crash(o1), tried |-> <<me.plex_ip[1]>>, plex |-> None]

-----------------------------------------------------------------------------
(* main: name building *)

WordChars ==
    { "a", "b", "c", "d", "e", "f", "g", "h", "i", "j", "k", "l", "m", "n", "o", "p", "q",
      "r", "s", "t", "u", "v", "w", "x", "y", "z",
      "A", "B", "C", "D", "E", "F", "G", "H", "I", "J", "K", "L", "M", "N", "O", "P", "Q",
      "R", "S", "T", "U", "V", "W", "X", "Y", "Z",
      "0", "1", "2", "3", "4", "5", "6", "7", "8", "9", "_" }

\* re.sub('\\W+', ' ', s): every maximal run of non-word characters becomes one space
RECURSIVE re_sub_from(_, _, _)
re_sub_from(s, i, in_run) ==
    IF i > Len(s) THEN <<>>
    ELSE IF s[i] \in WordChars THEN <<s[i]>> \o re_sub_from(s, i + 1, FALSE)
    ELSE IF in_run THEN re_sub_from(s, i + 1, TRUE)
    ELSE <<" ">> \o re_sub_from(s, i + 1, TRUE)

re_sub(s) == re_sub_from(s, 1, FALSE)

s_None == <<"N", "o", "n", "e">>

\* how an f-string formats child.year: an int, or None
format_year(year) == IF year = None THEN s_None ELSE str(year[1])

\* lines 131-133: the name of a movie or show
video_name(child) == re_sub(child.title) \o <<" ", "(">> \o format_year(child.year) \o <<")">>

\* line 115: the name of an album
audio_name(album) == re_sub(album.title)

-----------------------------------------------------------------------------
(* The environment of a run *)

a_local == s_http \o <<"a">>
a_public == s_https \o <<"b">>

\* what a connection attempt can end in: connected, requests' InvalidURL, another
\* RequestException, plexapi's Unauthorized, or another plexapi exception
Outcomes == {"ok", "InvalidURL", "ConnectionError", "Unauthorized", "BadRequest"}

\* the addresses a connection may be attempted to
Addresses == {<<>>, a_local, a_public}

Keys == {K_TOKEN, K_IP, K_PUB}

\* os.environ: each variable is unset, empty, malformed or well-formed
EnvValues(k) ==
    IF k = K_TOKEN THEN {<<"t", "o", "k">>}
    ELSE IF k = K_IP THEN {<<>>, <<"a">>, a_local}
    ELSE {<<>>, <<"b">>, a_public}

Envs == UNION {{e \in [D -> UNION {EnvValues(k) : k \in Keys}] : \A k \in D : e[k] \in EnvValues(k)}
               : D \in SUBSET Keys}

NoEnding == [status |-> "running", why |-> ""]

InitRunVars ==
    /\ pc = "load_config"
    /\ self = NoSelf
    /\ tried = <<>>
    /\ ending = NoEnding
    /\ children = 0
    /\ posters_seen = 0

\* the run part of a state in which the program is not run
IdleRun ==
    /\ env = <<>>
    /\ config = "ok"
    /\ net = <<>>
    /\ library = [found |-> TRUE, type |-> "movie"]
    /\ pc = "idle"
    /\ self = NoSelf
    /\ tried = <<>>
    /\ ending = NoEnding
    /\ children = 0
    /\ posters_seen = 0

InitConnect ==
    /\ env \in Envs
    /\ config \in {"ok", "missing", "malformed"}
    /\ net \in [Addresses -> Outcomes]
    /\ library = [found |-> TRUE, type |-> "movie"]
    /\ InitRunVars
    /\ IdleGuid
    /\ IdleFs

\* PlexConnection.__init__, first half
LoadConfig ==
    /\ pc = "load_config"
    /\ LET r == load_config(env, config) IN
          /\ self' = r.self
          /\ ending' = IF r.end.status = "ok" THEN ending ELSE r.end
          /\ pc' = IF r.end.status = "ok" THEN "plex_setup" ELSE r.end.status
    /\ UNCHANGED <<env, config, net, library, tried, children, posters_seen>>
    /\ UNCHANGED <<guidVars, fsVars>>

\* PlexConnection.__init__, second half
PlexSetup ==
    /\ pc = "plex_setup"
    /\ LET r == plex_setup(net, self) IN
          /\ self' = [self EXCEPT !.plex = r.plex]
          /\ tried' = r.tried
          /\ ending' = IF r.end.status = "ok" THEN ending ELSE r.end
          /\ pc' = IF r.end.status = "ok" THEN "get_libraries" ELSE r.end.status
    /\ UNCHANGED <<env, config, net, library, children, posters_seen>>
    /\ UNCHANGED <<guidVars, fsVars>>

NextConnect == LoadConfig \/ PlexSetup

SpecConnect == InitConnect /\ [][NextConnect]_vars

-----------------------------------------------------------------------------
(* main *)

MaxItems == 2

t_A == <<"A">>
t_A_colon == <<"A", ":", " ">>

\* the titles the server reports: plain, with punctuation, and empty
RawTitles == {t_A, t_A_colon, <<>>}

\* a movie, a show or an album as the server reports it
Items ==
    [title : RawTitles,
     year  : {None, Some(2000), Some(2001)},
     thumb : {None, Some(<<"p", "1">>)}]

LibraryTypes == {"movie", "show", "artist", "photo", "clip"}

\* PlexConnection.get_libraries, for the library config.yml names
GetLibraries ==
    /\ pc = "get_libraries"
    /\ IF library.found
       THEN pc' = "libraries" /\ UNCHANGED ending
       ELSE pc' = "exit" /\ ending' = Exit("library not found")
    /\ UNCHANGED <<env, config, net, library, self, tried, children, posters_seen>>
    /\ UNCHANGED <<guidVars, fsVars>>

\* lines 92-101: the library is skipped, or its items are walked
ClassifyLibrary ==
    /\ pc = "libraries"
    /\ pc' = IF library.type \in {"movie", "show", "artist"} THEN "children" ELSE "done"
    /\ UNCHANGED <<env, config, net, library, self, tried, ending, children, posters_seen>>
    /\ UNCHANGED <<guidVars, fsVars>>

\* what urlretrieve gets from thumb_url: the poster, or nothing when the request fails
fetch(n, base, poster) ==
    IF base # <<>> /\ n[base] = "ok" THEN Some(poster) ELSE None

\* lines 117-128 and 135-146: the item is skipped when it has no poster; otherwise the
\* URL is built from os.environ and the poster is downloaded
SaveItem(kind, item, name) ==
    IF item.thumb = None
    THEN UNCHANGED <<fsVars, pc, ending, posters_seen>>
    ELSE /\ posters_seen' = posters_seen + 1
         /\ IF K_PUB \notin DOMAIN env
            THEN /\ pc' = "crash"
                 /\ ending' = Crash("KeyError")
                 /\ UNCHANGED fsVars
            ELSE LET got == fetch(net, env[K_PUB], item.thumb[1])
                     r == download_images(dirs, files, save_path, LibraryName, name, got)
                 IN  /\ dirs' = r.dirs
                     /\ files' = r.files
                     /\ calls' = calls + 1
                     /\ last_call' =
                           [op |-> IF r.ok THEN "download_images" ELSE "download_failed",
                            name |-> name, path |-> r.path,
                            pre_dirs |-> dirs, pre_files |-> files]
                     /\ log' = IF r.ok
                               THEN Append(log, [kind |-> kind, title |-> item.title,
                                                 year |-> item.year, name |-> name,
                                                 path |-> r.path,
                                                 fresh |-> ~exists(files, [r.path EXCEPT !.name = name \o s_png])])
                               ELSE log
                     /\ pc' = IF r.ok THEN pc ELSE "crash"
                     /\ ending' = IF r.ok THEN ending ELSE Crash("URLError")
                     /\ UNCHANGED save_path

\* one iteration of the loop over a movie or show library
VideoChild ==
    /\ pc = "children"
    /\ library.type \in {"movie", "show"}
    /\ children < MaxItems
    /\ \E child \in Items : SaveItem("video", child, video_name(child))
    /\ children' = children + 1
    /\ UNCHANGED <<env, config, net, library, self, tried>>
    /\ UNCHANGED guidVars

\* one iteration of the loop over an artist library: its albums are walked
ArtistChild ==
    /\ pc = "children"
    /\ library.type = "artist"
    /\ pc' = "albums"
    /\ UNCHANGED <<env, config, net, library, self, tried, ending, children, posters_seen>>
    /\ UNCHANGED <<guidVars, fsVars>>

\* one iteration of the loop over an artist's albums
Album ==
    /\ pc = "albums"
    /\ children < MaxItems
    /\ \E album \in Items : SaveItem("audio", album, audio_name(album))
    /\ children' = children + 1
    /\ UNCHANGED <<env, config, net, library, self, tried>>
    /\ UNCHANGED guidVars

\* the artist has no further album
AlbumsDone ==
    /\ pc = "albums"
    /\ pc' = "children"
    /\ UNCHANGED <<env, config, net, library, self, tried, ending, children, posters_seen>>
    /\ UNCHANGED <<guidVars, fsVars>>

\* the library has no further item
ChildrenDone ==
    /\ pc = "children"
    /\ pc' = "done"
    /\ UNCHANGED <<env, config, net, library, self, tried, ending, children, posters_seen>>
    /\ UNCHANGED <<guidVars, fsVars>>

n_A_2000 == <<"A", " ", "(", "2", "0", "0", "0", ")">>
n_A_2001 == <<"A", " ", "(", "2", "0", "0", "1", ")">>

\* the names of the files the library directory may hold before the run
MainOldNames == {n_A_2000 \o s_png, n_A_2000 \o <<"_", "1">> \o s_png}

MainEnvs == {e \in Envs : K_TOKEN \in DOMAIN e /\ \A k \in DOMAIN e : e[k] \in {<<"t", "o", "k">>, <<>>, a_local, a_public}}

InitMain ==
    /\ env \in MainEnvs
    /\ config = "ok"
    /\ net \in [Addresses -> {"ok", "ConnectionError"}]
    /\ library \in [found : BOOLEAN, type : LibraryTypes]
    /\ InitRunVars
    /\ InitFsWith(MainOldNames)
    /\ IdleGuid

NextMain ==
    \/ LoadConfig
    \/ PlexSetup
    \/ GetLibraries
    \/ ClassifyLibrary
    \/ VideoChild
    \/ ArtistChild
    \/ Album
    \/ AlbumsDone
    \/ ChildrenDone

SpecMain == InitMain /\ [][NextMain]_vars

-----------------------------------------------------------------------------
(* Calls of get_item_guid, and of create_save_path and download_images, on their own *)

InitGuidCall == InitGuid /\ IdleFs /\ IdleRun

SpecGuid == InitGuidCall /\ [][NextGuid]_vars

InitPath == InitFsWith(OldNames) /\ IdleGuid /\ IdleRun

SpecPath == InitPath /\ [][NextPath]_vars

-----------------------------------------------------------------------------
(* What the claims speak of *)

\* s up to, not including, its first whitespace character
RECURSIVE FirstWord(_)
FirstWord(s) ==
    IF s = <<>> \/ IsSpace(Head(s)) THEN <<>> ELSE <<Head(s)>> \o FirstWord(Tail(s))

\* the IDs of the tokens of a source that a string holds: the ID of each {source-ID},
\* and for plex the TYPE/ID of each plex://TYPE/ID
TokenIds(t, source) ==
    IF source = s_plex
    THEN {FirstWord(SubSeq(t, i + Len(s_plex_prefix), Len(t))) :
             i \in {j \in 1..Len(t) : StartsAt(t, s_plex_prefix, j)}} \ {<<>>}
    ELSE LET open == <<"{">> \o source \o <<"-">>
             rests == {SubSeq(t, i + Len(open), Len(t)) :
                          i \in {j \in 1..Len(t) : StartsAt(t, open, j)}}
         IN  {Split(r, <<"}">>)[1] : r \in {x \in rests : Find(x, <<"}">>) # -1}} \ {<<>>}

\* the priority order the specification gives for each supported kind
Priority ==
    [movie |-> <<s_tmdb, s_imdb, s_plex>>,
     show  |-> <<s_tvdb, s_tmdb, s_plex>>]

\* the short or the full form of an identifier
Rendered(source, id, f) == IF f THEN source \o s_scheme \o id ELSE id

Min(S) == CHOOSE x \in S : \A y \in S : x <= y

\* C1: get_item_guid returns the identifier of the highest-priority source whose token
\* is present in the string, for every string and order of tokens; in particular a
\* string holding {tmdb-123} with kind "movie" yields "123", or "tmdb://123" when full
C1_HighestPriorityToken ==
    (guid_pc = "done" /\ lib_type \in DOMAIN Priority) =>
        LET prio == Priority[lib_type]
            present == {k \in 1..Len(prio) : TokenIds(title, prio[k]) # {}}
        IN  /\ present # {} =>
                /\ guid_result.kind = "return"
                /\ \E id \in TokenIds(title, prio[Min(present)]) :
                      guid_result.value = Rendered(prio[Min(present)], id, full)
            /\ (lib_type = "movie" /\ id_123 \in TokenIds(title, s_tmdb)) =>
                guid_result = Return(Rendered(s_tmdb, id_123, full))

\* C2: for a supported kind, a string that holds no token of the kind's sources yields
\* the sentinel "-1" and nothing else, with full and without
C2_NoTokenGivesSentinel ==
    (/\ guid_pc = "done"
     /\ lib_type \in DOMAIN Priority
     /\ \A k \in 1..Len(Priority[lib_type]) : TokenIds(title, Priority[lib_type][k]) = {})
        => guid_result = Return(s_minus_one)

\* C3: a kind other than "movie" and "show" makes get_item_guid fail with the
\* unknown-type error, whatever the string holds; it never returns a value
C3_UnknownKindRaises ==
    (guid_pc = "done" /\ lib_type \notin {"movie", "show"}) =>
        guid_result = Raise("UnknownType")

\* C3's case: kind "album" with a string that holds a tmdb token
C3_Witness ==
    /\ guid_pc = "done"
    /\ lib_type = "album"
    /\ id_123 \in TokenIds(title, s_tmdb)
    /\ guid_result = Raise("UnknownType")

\* the path <directory>/<library>/<name>.png, and the one with the suffix _k
NamedPath(name) ==
    [dir |-> save_dir_path(save_path, LibraryName), name |-> name \o s_png]
SuffixedPath(name, k) ==
    [dir |-> save_dir_path(save_path, LibraryName),
     name |-> name \o s_underscore \o str(k) \o s_png]

\* C4: create_save_path returns <name>.png when that file does not exist, and otherwise
\* <name>_k.png for the smallest k >= 1 whose file does not exist; the path returned
\* does not exist
C4_FirstUnusedName ==
    last_call.op = "create_save_path" =>
        LET before == DOMAIN last_call.pre_files
            name == last_call.name
        IN  /\ NamedPath(name) \notin before => last_call.path = NamedPath(name)
            /\ NamedPath(name) \in before =>
                  \E k \in 1..(Cardinality(before) + 1) :
                     /\ last_call.path = SuffixedPath(name, k)
                     /\ \A j \in 1..(k - 1) : SuffixedPath(name, j) \in before
            /\ last_call.path \notin DOMAIN files

\* C6: create_save_path leaves every file as it was and creates none; the only
\* directories it creates are the library's directory and the ancestors it misses
C6_OnlyDirectoryCreated ==
    last_call.op = "create_save_path" =>
        LET lib_dir == save_dir_path(save_path, LibraryName) IN
        /\ files = last_call.pre_files
        /\ last_call.pre_dirs \subseteq dirs
        /\ \A d \in dirs \ last_call.pre_dirs :
              Len(d) <= Len(lib_dir) /\ d = SubSeq(lib_dir, 1, Len(d))
        /\ lib_dir \in last_call.pre_dirs => dirs = last_call.pre_dirs
        /\ lib_dir \in dirs

\* C6's case: the requested name collides with a file of the directory
C6_Witness ==
    /\ last_call.op = "create_save_path"
    /\ NamedPath(last_call.name) \in DOMAIN files
    /\ last_call.path # NamedPath(last_call.name)
    /\ files = last_call.pre_files

\* C5: a successful download adds exactly one file and leaves every earlier file as it
\* was; no two downloads go to one path; a numeric suffix is used only when the name is
\* taken, and items of one title and different years never take each other's name
C5_NoOverwrite ==
    /\ last_call.op = "download_images" =>
          /\ \A p \in DOMAIN last_call.pre_files :
                p \in DOMAIN files /\ files[p] = last_call.pre_files[p]
          /\ last_call.path \in (DOMAIN files) \ (DOMAIN last_call.pre_files)
          /\ Cardinality(DOMAIN files) = Cardinality(DOMAIN last_call.pre_files) + 1
    /\ \A i, j \in 1..Len(log) :
          /\ i # j => log[i].path # log[j].path
          /\ log[i].fresh => log[i].path.name = log[i].name \o s_png
          /\ (/\ i # j
              /\ log[i].kind = "video" /\ log[j].kind = "video"
              /\ log[i].title = log[j].title
              /\ log[i].year # log[j].year)
                => log[i].path.name # log[j].name \o s_png

\* C5's case: two movies titled "A", of 2000 and of 2001, saved one after the other
C5_Witness ==
    /\ Len(log) = 2
    /\ log[1].kind = "video" /\ log[1].title = t_A /\ log[1].year = Some(2000)
    /\ log[2].kind = "video" /\ log[2].title = t_A /\ log[2].year = Some(2001)
    /\ log[1].path.name = n_A_2000 \o s_png
    /\ log[2].path.name = n_A_2001 \o s_png
    /\ log[1].path \in DOMAIN files /\ log[2].path \in DOMAIN files

\* an address value that begins "http://" or "https://"
WellFormed(ip) == Prefix(ip, 7) = s_http \/ Prefix(ip, 8) = s_https

\* PLEX_SERVER_PUBLIC_IP is set to an address
PublicConfigured == K_PUB \in DOMAIN env /\ env[K_PUB] # <<>>

\* C7: when the primary address fails with a connection error and the public address is
\* configured and reachable, setup ends connected through the public address; at most
\* the primary and then the public address are tried; and with no public address, or
\* with the public attempt failing too, the process ends
C7_OneShotFallback ==
    /\ Len(tried) <= 2
    /\ Len(tried) = 2 => tried = <<self.plex_ip[1], env[K_PUB]>>
    /\ tried # <<>> =>
          /\ tried[1] = self.plex_ip[1]
          /\ (/\ K_IP \in DOMAIN env
              /\ net[env[K_IP]] = "ConnectionError"
              /\ PublicConfigured
              /\ net[env[K_PUB]] = "ok")
                => /\ pc = "get_libraries"
                   /\ self.plex = Some(env[K_PUB])
                   /\ tried = <<env[K_IP], env[K_PUB]>>
          /\ (/\ net[tried[1]] = "ConnectionError"
              /\ (~PublicConfigured \/ net[env[K_PUB]] # "ok"))
                => /\ pc \in {"exit", "crash"}
                   /\ self.plex = None

\* C7's case: the primary address failed and the run is connected through the public one
C7_Witness ==
    /\ pc = "get_libraries"
    /\ tried = <<a_local, a_public>>
    /\ net[a_local] = "ConnectionError"
    /\ self.plex = Some(a_public)

\* C8: without PLEX_TOKEN, without both addresses, or with a set address that does not
\* begin "http://" or "https://", the constructor exits and no connection is attempted
C8_ExitBeforeConnecting ==
    (\/ K_TOKEN \notin DOMAIN env
     \/ (K_IP \notin DOMAIN env /\ K_PUB \notin DOMAIN env)
     \/ \E k \in {K_IP, K_PUB} \cap DOMAIN env : ~WellFormed(env[k]))
        => /\ tried = <<>>
           /\ pc \in {"load_config", "exit"}

\* C9: the name of a movie's or show's file is the sanitized title followed by " (YEAR)"
\* when the year is known and the sanitized title alone when it is not; an album's is
\* the sanitized title
C9_YearSuffixWhenKnown ==
    \A i \in 1..Len(log) :
        /\ log[i].kind = "video" =>
              log[i].name = re_sub(log[i].title) \o
                  (IF log[i].year = None THEN <<>>
                   ELSE <<" ", "(">> \o str(log[i].year[1]) \o <<")">>)
        /\ log[i].kind = "audio" => log[i].name = re_sub(log[i].title)

\* C10: a run with PLEX_TOKEN and a well-formed, reachable PLEX_SERVER_IP and without
\* PLEX_SERVER_PUBLIC_IP connects and never fails: every item with a poster gets a file
C10_PublicIpOptional ==
    (/\ K_TOKEN \in DOMAIN env
     /\ K_IP \in DOMAIN env /\ WellFormed(env[K_IP]) /\ net[env[K_IP]] = "ok"
     /\ K_PUB \notin DOMAIN env
     /\ config = "ok" /\ library.found)
        => /\ pc \notin {"exit", "crash"}
           /\ Len(log) = posters_seen

====
